---- MODULE Spec2Model ----
(***************************************************************************)
(* Model of eksi_harvester.py: the scrape() coroutine (crawl loop, dedup   *)
(* by entry_id, page budget, pagination, referer and delay handling, the   *)
(* single write of the output at the end).                                 *)
(*                                                                         *)
(* In the crawl addresses are natural numbers: BASE_ADDR is the base       *)
(* origin, 1..n are the pages of the topic.  An optional value (Python     *)
(* None / a value) is the empty sequence or a one-element sequence.  An    *)
(* entry_id of 0 stands for the empty string.                              *)
(*                                                                         *)
(* The string functions are modelled on strings that are sequences of      *)
(* symbols.  A symbol is one character, except "http" (the four characters *)
(* of the scheme prefix), BASE (the origin literal) and "?p=1" (the        *)
(* first-page marker that normalize_topic_url appends).                    *)
(***************************************************************************)
EXTENDS Integers, Sequences, FiniteSets, TLC

\* ---------------------------------------------------------------- bounds
NumPages == 2
MaxEntries == 2
MaxId == 2
MaxBudget == 2
MaxTopicLen == 4

\* The loop counter is capped so that an endless crawl has finitely many states.
MaxVisits == (IF MaxBudget > NumPages THEN MaxBudget ELSE NumPages) + 1

\* ------------------------------------------------------ program constants
BASE == "https://eksisozluk.com"

\* BASE in the numbering of the crawl's addresses (the pages are 1..n).
BASE_ADDR == 0
SETTLE_MS == 800
DEFAULT_DELAY_MS == 1200

None == <<>>
Some(v) == <<v>>

VARIABLES
  site,          \* the remote topic: address -> rendered page (nodes, next link)
  max_pages,     \* scrape() argument: None or Some(int)
  delay_ms,      \* scrape() argument
  pc,            \* position of the coroutine
  page_url,      \* address the browser page currently shows (None before any goto)
  referer,       \* extra HTTP header currently set on the page
  all_entries,   \* result collection
  seen_ids,      \* set of recorded identities
  pages_visited, \* loop counter
  current_url,   \* address of the page being processed
  html,          \* markup returned by page.content() in this iteration
  entries,       \* records parsed from html
  i,             \* position of the dedup for-loop in entries
  new_count,     \* records accepted on this page
  next_url,      \* result of the pagination resolver in this iteration
  stop_reason,   \* which break left the loop ("" while looping)
  output,        \* the output file: None or Some(collection written)
  writes,        \* number of times the output file was opened for writing
  trace,         \* calls made on the fetch collaborator: goto and wait_for_timeout
  extracted,     \* history: the parsed records of every visited page, in visit order
  resolver_calls,\* history: number of calls of get_next_page_url_from_html
  cookie_header, \* scrape() argument: None or Some(list of header parts)
  cookies,       \* cookies held by the browser context
  stderr,        \* diagnostics printed to standard error, in order
  browser_closed,\* browser.close() has returned
  call_arg,      \* argument of the pure function under study (None in a crawl)
  call_ret       \* None, or Some(value returned by the pure function)

vars == <<site, max_pages, delay_ms, pc, page_url, referer, all_entries, seen_ids,
          pages_visited, current_url, html, entries, i, new_count, next_url,
          stop_reason, output, writes, trace, extracted, resolver_calls,
          cookie_header, cookies, stderr, browser_closed, call_arg, call_ret>>

\* Variables that only a few steps of scrape() touch.
pureVars == <<call_arg, call_ret>>
cookieVars == <<cookie_header, cookies>>
auxVars == <<pureVars, cookieVars, stderr, browser_closed, resolver_calls>>

\* --------------------------------------------------------------- inputs
IdSeqs == UNION {[1..n -> 0..MaxId] : n \in 0..MaxEntries}

\* An <a> element: its text and its href attribute (None: no such attribute).
Anchor(text, href) == [text |-> text, href |-> href]

\* An href that is a complete address.
AbsHref(u) == [kind |-> "abs", url |-> u]

\* An <li> element with a data-id attribute (0: the empty value) whose only
\* sub-element is one of class "content".
EntryLi(id, text) ==
  [data_id |-> Some(id), stream_item |-> FALSE,
   content |-> Some(text), entry_content |-> None,
   entry_author |-> None, data_author |-> None,
   entry_date |-> None, permalink |-> None]

\* A rendered page of the crawl: its entry containers in document order and
\* its "next" link (next: the address the topic continues at, None at the end).
Page(a, ids, nxt) ==
  [nodes |-> [k \in 1..Len(ids) |-> EntryLi(ids[k], <<a, k>>)],
   rel_next |-> IF nxt = None THEN None ELSE Some(Anchor(<<>>, Some(AbsHref(nxt[1])))),
   pager_next |-> None,
   next  |-> nxt]

\* The entry containers of a whole topic of n pages (at most MaxEntries of
\* them), laid out over its pages in order: at[k] is the page of the k-th one.
Layouts(n) ==
  UNION {{[ids |-> s, at |-> q] :
            q \in {r \in [1..Len(s) -> 1..n] :
                      \A k \in 1..(Len(s) - 1) : r[k] <= r[k + 1]}} :
         s \in IdSeqs}

\* The identities of the containers that a layout puts on page a, in order.
PageIds(l, a) ==
  LET idx == {k \in 1..Len(l.ids) : l.at[k] = a}
      lo  == CHOOSE k \in idx : \A m \in idx : k <= m
  IN [j \in 1..Cardinality(idx) |-> l.ids[lo + j - 1]]

\* The topics: n pages numbered in the order the crawl reaches them; page a
\* links to page a + 1, the last page has no next link or links back to a
\* page of the topic (a pagination cycle).
SitesOf(n) ==
  {[a \in 1..n |-> Page(a, PageIds(l, a), IF a < n THEN Some(a + 1) ELSE last)] :
      l \in Layouts(n), last \in {None} \cup {Some(b) : b \in 1..n}}

Sites == UNION {SitesOf(n) : n \in 1..NumPages}

\* The three-page fixture: {1,2,3} -> {3,4,5} -> {6}, no next link on page 3.
Fixture ==
  <<Page(1, <<1, 2, 3>>, Some(2)), Page(2, <<3, 4, 5>>, Some(3)), Page(3, <<6>>, None)>>

Budgets == {None} \cup {Some(n) : n \in (-MaxBudget)..MaxBudget}

Delays == {0, DEFAULT_DELAY_MS}

\* ------------------------------------------------------- pure functions
start_url == 1

\* lines 42: soup.select("li[data-id]") or soup.select("li[class*=stream-item]")
HasDataId(li) == li.data_id # None

IsStreamItem(li) == li.stream_item

select_nodes(h) ==
  IF SelectSeq(h.nodes, HasDataId) # <<>>
  THEN SelectSeq(h.nodes, HasDataId)
  ELSE SelectSeq(h.nodes, IsStreamItem)

\* li.select_one(x) or li.select_one(y): a Tag is always true, so the first
\* element that exists
first_of(x, y) == IF x # None THEN x ELSE y

\* lines 50, 57: el.get_text(strip=True) if el else ""
text_of(el) == IF el # None THEN Some(el[1].text) ELSE Some(<<>>)

\* lines 51-54, 58-61: the link of an author or date element.  The value is
\* None (Python None) or Some(string).
link_of(el) ==
  IF el # None /\ el[1].href # None /\ el[1].href[1] # <<>> /\ Head(el[1].href[1]) = "/"
  THEN Some(<<BASE>> \o el[1].href[1])
  ELSE IF el # None THEN el[1].href ELSE Some(<<>>)

\* lines 44-72: the record of one container.  entry_id is the identity as a
\* number (0: the empty string); the other fields are None or Some(string).
parse_entry(li) ==
  [entry_id   |-> IF li.data_id = None THEN 0 ELSE li.data_id[1],
   author     |-> text_of(first_of(li.entry_author, li.data_author)),
   author_url |-> link_of(first_of(li.entry_author, li.data_author)),
   date       |-> text_of(first_of(li.entry_date, li.permalink)),
   permalink  |-> link_of(first_of(li.entry_date, li.permalink)),
   content    |-> IF first_of(li.content, li.entry_content) # None
                  THEN first_of(li.content, li.entry_content)
                  ELSE Some(<<>>)]

\* parse_entries_from_html: one record per container, in document order.
parse_entries_from_html(h) ==
  [k \in 1..Len(select_nodes(h)) |-> parse_entry(select_nodes(h)[k])]

\* urllib.parse.urljoin(current_url, href) for a non-empty href.  An address
\* is a number (crawl) or a record of origin, path segments and query.
urljoin(cur, href) ==
  CASE href.kind = "abs"   -> href.url
    [] href.kind = "path"  -> [origin |-> cur.origin, path |-> href.path, query |-> href.query]
    [] href.kind = "query" -> [origin |-> cur.origin, path |-> cur.path, query |-> href.query]
    [] href.kind = "rel"   -> [origin |-> cur.origin,
                               path |-> SubSeq(cur.path, 1, Len(cur.path) - 1) \o href.path,
                               query |-> href.query]

\* get_next_page_url_from_html: the address of the next page, or None.
get_next_page_url_from_html_pager_first(h, cur) ==
  LET a == first_of(h.pager_next, h.rel_next)
  IN IF a # None /\ a[1].href # None /\ a[1].href[1].kind # "empty"
     THEN Some(urljoin(cur, a[1].href[1]))
     ELSE None
get_next_page_url_from_html(h, cur) ==
  LET a == first_of(h.rel_next, h.pager_next)
  IN IF a # None /\ a[1].href # None /\ a[1].href[1].kind # "empty"
     THEN Some(urljoin(cur, a[1].href[1]))
     ELSE None

\* "if eid and eid not in seen_ids"
AcceptsMissingSeenCheck(eid, seen) == eid # 0
Accepts(eid, seen) == eid # 0 /\ eid \notin seen

\* "if max_pages and pages_visited >= max_pages"
BudgetReachedNegativeUnbounded(mp, pv) == mp # None /\ mp[1] > 0 /\ pv >= mp[1]

BudgetReachedZeroIsBudget(mp, pv) == mp # None /\ pv >= mp[1]
BudgetIgnored(mp, pv) == FALSE
BudgetReachedOffByOne(mp, pv) == mp # None /\ mp[1] # 0 /\ pv > mp[1]
BudgetReached(mp, pv) == mp # None /\ mp[1] # 0 /\ pv >= mp[1]

\* ------------------------------------------------------ string functions
\* str.strip(chars) / str.strip(): drop leading and trailing symbols of a set
RECURSIVE lstrip(_, _)
lstrip(s, set) == IF s # <<>> /\ Head(s) \in set THEN lstrip(Tail(s), set) ELSE s

RECURSIVE rstrip(_, _)
rstrip(s, set) ==
  IF s # <<>> /\ s[Len(s)] \in set THEN rstrip(SubSeq(s, 1, Len(s) - 1), set) ELSE s

strip(s, set) == rstrip(lstrip(s, set), set)

WHITESPACE == {" "}

\* str.find for a set of symbols: first position holding one of them, 0 if none
find(s, set) ==
  IF \E k \in 1..Len(s) : s[k] \in set
  THEN CHOOSE k \in 1..Len(s) : s[k] \in set /\ \A m \in 1..(k - 1) : s[m] \notin set
  ELSE 0

\* s[:k-1] when a symbol of the set occurs at k, else s  (s.split(c, 1)[0])
before(s, set) == IF find(s, set) = 0 THEN s ELSE SubSeq(s, 1, find(s, set) - 1)

SCHEME_CHARS == {"http", "a"}

\* urllib.parse.urlparse(url).path: drop the scheme, the netloc, the fragment
\* and the query.
after_scheme(url) ==
  LET c == find(url, {":"})
  IN IF c > 1 /\ \A k \in 1..(c - 1) : url[k] \in SCHEME_CHARS
     THEN SubSeq(url, c + 1, Len(url))
     ELSE url

after_netloc(rest) ==
  IF Len(rest) >= 2 /\ rest[1] = "/" /\ rest[2] = "/"
  THEN LET tail == SubSeq(rest, 3, Len(rest))
           d == find(tail, {"/", "?", "#"})
       IN IF d = 0 THEN <<>> ELSE SubSeq(tail, d, Len(tail))
  ELSE rest

urlparse_path_keeps_query(url) == before(after_netloc(after_scheme(url)), {"#"})
urlparse_path(url) == before(before(after_netloc(after_scheme(url)), {"#"}), {"?"})

startswith_http(topic) == topic # <<>> /\ topic[1] = "http"

normalize_topic_url(topic) ==
  IF startswith_http(topic)
  THEN <<BASE, "/">> \o strip(urlparse_path(topic), {"/"}) \o <<"?p=1">>
  ELSE <<BASE, "/">> \o strip(strip(topic, WHITESPACE), {"/"}) \o <<"?p=1">>

\* Topic references: anything of at most MaxTopicLen symbols, alone or after
\* the scheme and host of a full address.
TopicChars == {"http", ":", "/", "?", "#", " ", "a"}

HostPrefix == <<"http", ":", "/", "/", "a">>

\* ------------------------------------------------------------------ Init
Init ==
  /\ site \in Sites \cup {Fixture}
  /\ max_pages \in Budgets
  /\ delay_ms \in Delays
  /\ pc = "first"
  /\ page_url = None
  /\ referer = None
  /\ all_entries = <<>>
  /\ seen_ids = {}
  /\ pages_visited = 0
  /\ current_url = start_url
  /\ html = None
  /\ entries = <<>>
  /\ i = 1
  /\ new_count = 0
  /\ next_url = None
  /\ stop_reason = ""
  /\ output = None
  /\ writes = 0
  /\ trace = <<>>
  /\ extracted = <<>>
  /\ resolver_calls = 0
  /\ cookie_header = None
  /\ cookies = <<>>
  /\ stderr = <<>>
  /\ browser_closed = FALSE
  /\ call_arg = None
  /\ call_ret = None

\* ---------------------------------------------------------------- cookies
\* A Cookie header is the sequence of its parts between ";" (the result of
\* cookie_header.split(";"), never empty); each part is a string.
after(s, set) == IF find(s, set) = 0 THEN <<>> ELSE SubSeq(s, find(s, set) + 1, Len(s))

\* lines 88-98: one cookie per part that holds "="
RECURSIVE cookie_header_to_list(_)
cookie_header_to_list(parts) ==
  IF parts = <<>> THEN <<>>
  ELSE LET part == Head(parts)
           stripped == strip(part, WHITESPACE)
       IN (IF find(part, {"="}) # 0
           THEN <<[name   |-> strip(before(stripped, {"="}), WHITESPACE),
                   value  |-> strip(after(stripped, {"="}), WHITESPACE),
                   domain |-> "eksisozluk.com",
                   path   |-> "/"]>>
           ELSE <<>>) \o cookie_header_to_list(Tail(parts))

\* "if cookie_header": neither None nor the empty string
HeaderGiven(h) == h # None /\ h[1] # <<<<>>>>

CookieParts == {<<>>, <<"n", "=", "v">>, <<" ", "n", " ", "=", "v", "=">>, <<"n">>}

CookieHeaders ==
  {None} \cup {Some(<<x>>) : x \in CookieParts}
         \cup {Some(<<x, y>>) : x \in CookieParts, y \in CookieParts}

\* The crawl variables while only a pure function is exercised.
CrawlIdle(p) ==
  /\ site = <<>>
  /\ max_pages = None
  /\ delay_ms = DEFAULT_DELAY_MS
  /\ pc = p
  /\ page_url = None
  /\ referer = None
  /\ all_entries = <<>>
  /\ seen_ids = {}
  /\ pages_visited = 0
  /\ current_url = start_url
  /\ html = None
  /\ entries = <<>>
  /\ i = 1
  /\ new_count = 0
  /\ next_url = None
  /\ stop_reason = ""
  /\ output = None
  /\ writes = 0
  /\ trace = <<>>
  /\ extracted = <<>>
  /\ resolver_calls = 0
  /\ cookie_header = None
  /\ cookies = <<>>
  /\ stderr = <<>>
  /\ browser_closed = FALSE

crawlVars == <<site, max_pages, delay_ms, pc, page_url, referer, all_entries, seen_ids,
               pages_visited, current_url, html, entries, i, new_count, next_url,
               stop_reason, output, writes, trace, extracted, resolver_calls,
               cookieVars, stderr, browser_closed>>

\* line 119: scrape() normalizes its topic argument
NormInit ==
  /\ CrawlIdle("normalize")
  /\ \E n \in 0..MaxTopicLen :
        \E b \in [1..n -> TopicChars], pre \in {<<>>, HostPrefix} :
           call_arg = Some(pre \o b)
  /\ call_ret = None

CallNormalize ==
  /\ pc = "normalize"
  /\ call_ret = None
  /\ call_ret' = Some(normalize_topic_url(call_arg[1]))
  /\ UNCHANGED <<call_arg, crawlVars>>

NormNext == CallNormalize

NormSpec == NormInit /\ [][NormNext]_vars

\* lines 163-164: scrape() parses the markup of a page.  The markup under
\* study: one entry container with any combination of sub-elements, alone or
\* followed by a second <li>.
Hrefs ==
  {None, Some(<<>>), Some(<<"/", "a">>), Some(<<"a">>),
   Some(<<"http", ":", "/", "/", "a">>)}

FirstAnchors == {None} \cup {Some(Anchor(<<"x">>, h)) : h \in Hrefs}

SecondAnchors == {None, Some(Anchor(<<"y">>, None)), Some(Anchor(<<"y">>, Some(<<"/", "b">>)))}

Lis ==
  [data_id : {None, Some(0), Some(1)}, stream_item : BOOLEAN,
   content : {None, Some(<<"c">>)}, entry_content : {None, Some(<<"e">>)},
   entry_author : FirstAnchors, data_author : SecondAnchors,
   entry_date : FirstAnchors, permalink : SecondAnchors]

BareLi(did, stream) ==
  [data_id |-> did, stream_item |-> stream, content |-> None, entry_content |-> None,
   entry_author |-> None, data_author |-> None, entry_date |-> None, permalink |-> None]

OtherLis == {BareLi(Some(2), FALSE), BareLi(None, TRUE), BareLi(None, FALSE)}

Followers == {<<>>} \cup {<<o>> : o \in OtherLis}

ParseInit ==
  /\ CrawlIdle("parse")
  /\ \/ call_arg = Some([nodes |-> <<>>])
     \/ \E li \in Lis, rest \in Followers : call_arg = Some([nodes |-> <<li>> \o rest])
  /\ call_ret = None

CallParse ==
  /\ pc = "parse"
  /\ call_ret = None
  /\ call_ret' = Some(parse_entries_from_html(call_arg[1]))
  /\ UNCHANGED <<call_arg, crawlVars>>

ParseNext == CallParse

ParseSpec == ParseInit /\ [][ParseNext]_vars

\* line 186: scrape() asks for the next page of the markup at current_url.
\* The markup under study: a rel=next link and a pager next link, each absent,
\* without href, or with an empty, absolute or relative href.
Urls == [origin : {"o"}, path : {<<"t">>, <<"d", "t">>}, query : {"p=1", "p=2"}]

HrefValues(q) ==
  {[kind |-> "empty"],
   AbsHref([origin |-> "x", path |-> <<"t">>, query |-> q]),
   [kind |-> "path", path |-> <<"t">>, query |-> q],
   [kind |-> "query", query |-> q],
   [kind |-> "rel", path |-> <<"u">>, query |-> q]}

NextAnchors(q) ==
  {None} \cup {Some(Anchor(<<>>, h)) : h \in {None} \cup {Some(v) : v \in HrefValues(q)}}

PagerInputs ==
  {[html |-> [nodes |-> <<>>, rel_next |-> r, pager_next |-> g], current_url |-> u] :
      r \in NextAnchors("p=3"), g \in NextAnchors("p=4"), u \in Urls}

PagerInit ==
  /\ CrawlIdle("next_page")
  /\ call_arg \in {Some(x) : x \in PagerInputs}
  /\ call_ret = None

CallNextPage ==
  /\ pc = "next_page"
  /\ call_ret = None
  /\ call_ret' = Some(get_next_page_url_from_html(call_arg[1].html, call_arg[1].current_url))
  /\ UNCHANGED <<call_arg, crawlVars>>

PagerNext == CallNextPage

PagerSpec == PagerInit /\ [][PagerNext]_vars

\* --------------------------------------------------------------- actions
\* lines 146-147: first navigation, referer is the base origin
FirstNavigation ==
  /\ pc = "first"
  /\ referer' = Some(BASE_ADDR)
  /\ page_url' = Some(start_url)
  /\ trace' = Append(trace, <<"goto", start_url, BASE_ADDR>>)
  /\ pc' = "settle"
  /\ UNCHANGED <<auxVars, site, max_pages, delay_ms, all_entries, seen_ids, pages_visited,
                 current_url, html, entries, i, new_count, next_url, stop_reason,
                 output, writes, extracted>>

\* lines 149-154: fixed settle wait, then the crawl state is created
Settle ==
  /\ pc = "settle"
  /\ trace' = Append(trace, <<"wait", SETTLE_MS>>)
  /\ all_entries' = <<>>
  /\ seen_ids' = {}
  /\ pages_visited' = 0
  /\ current_url' = start_url
  /\ pc' = "visit"
  /\ UNCHANGED <<auxVars, site, max_pages, delay_ms, page_url, referer, html, entries, i,
                 new_count, next_url, stop_reason, output, writes, extracted>>

\* lines 158-167: count the page, read its markup, parse it
VisitPage ==
  /\ pc = "visit"
  /\ pages_visited < MaxVisits
  /\ pages_visited' = pages_visited + 1
  /\ html' = site[page_url[1]]
  /\ entries' = parse_entries_from_html(html')
  /\ extracted' = Append(extracted, entries')
  /\ i' = 1
  /\ new_count' = 0
  /\ pc' = "dedup"
  /\ UNCHANGED <<auxVars, site, max_pages, delay_ms, page_url, referer, all_entries, seen_ids,
                 current_url, next_url, stop_reason, output, writes, trace>>

\* lines 168-173: one iteration of the dedup for-loop
DedupEntryNoRecord ==
  /\ pc = "dedup"
  /\ i <= Len(entries)
  /\ LET e == entries[i]
         eid == e.entry_id
     IN IF Accepts(eid, seen_ids)
        THEN /\ all_entries' = Append(all_entries, e)
             /\ new_count' = new_count + 1
             /\ UNCHANGED seen_ids
        ELSE UNCHANGED <<seen_ids, all_entries, new_count>>
  /\ i' = i + 1
  /\ UNCHANGED <<auxVars, site, max_pages, delay_ms, pc, page_url, referer, pages_visited,
                 current_url, html, entries, next_url, stop_reason, output, writes,
                 trace, extracted>>

DedupEntry ==
  /\ pc = "dedup"
  /\ i <= Len(entries)
  /\ LET e == entries[i]
         eid == e.entry_id
     IN IF Accepts(eid, seen_ids)
        THEN /\ seen_ids' = seen_ids \cup {eid}
             /\ all_entries' = Append(all_entries, e)
             /\ new_count' = new_count + 1
        ELSE UNCHANGED <<seen_ids, all_entries, new_count>>
  /\ i' = i + 1
  /\ UNCHANGED <<auxVars, site, max_pages, delay_ms, pc, page_url, referer, pages_visited,
                 current_url, html, entries, next_url, stop_reason, output, writes,
                 trace, extracted>>

\* lines 180-189: budget stop, then the pagination resolver
CheckStopResolverFirst ==
  /\ pc = "dedup"
  /\ i > Len(entries)
  /\ next_url' = get_next_page_url_from_html(html, current_url)
  /\ resolver_calls' = resolver_calls + 1
  /\ IF next_url' = None
     THEN stop_reason' = "end" /\ pc' = "write"
     ELSE IF BudgetReached(max_pages, pages_visited)
          THEN stop_reason' = "budget" /\ pc' = "write"
          ELSE stop_reason' = stop_reason /\ pc' = "advance"
  /\ UNCHANGED <<pureVars, cookieVars, stderr, browser_closed, site, max_pages, delay_ms,
                 page_url, referer, all_entries, seen_ids,
                 pages_visited, current_url, html, entries, i, new_count, output,
                 writes, trace, extracted>>

CheckStopOnRevisit ==
  /\ pc = "dedup"
  /\ i > Len(entries)
  /\ IF BudgetReached(max_pages, pages_visited)
     THEN /\ stop_reason' = "budget"
          /\ pc' = "write"
          /\ UNCHANGED <<next_url, resolver_calls>>
     ELSE /\ next_url' = get_next_page_url_from_html(html, current_url)
          /\ resolver_calls' = resolver_calls + 1
          /\ IF next_url' = None
                \/ \E k \in 1..Len(trace) :
                      trace[k][1] = "goto" /\ trace[k][2] = next_url'[1]
             THEN stop_reason' = "end" /\ pc' = "write"
             ELSE stop_reason' = stop_reason /\ pc' = "advance"
  /\ UNCHANGED <<pureVars, cookieVars, stderr, browser_closed, site, max_pages, delay_ms,
                 page_url, referer, all_entries, seen_ids,
                 pages_visited, current_url, html, entries, i, new_count, output,
                 writes, trace, extracted>>

CheckStopEarly ==
  /\ pc = "dedup"
  /\ IF BudgetReached(max_pages, pages_visited)
     THEN /\ stop_reason' = "budget"
          /\ pc' = "write"
          /\ UNCHANGED <<next_url, resolver_calls>>
     ELSE /\ next_url' = get_next_page_url_from_html(html, current_url)
          /\ resolver_calls' = resolver_calls + 1
          /\ IF next_url' = None
             THEN stop_reason' = "end" /\ pc' = "write"
             ELSE stop_reason' = stop_reason /\ pc' = "advance"
  /\ UNCHANGED <<pureVars, cookieVars, stderr, browser_closed, site, max_pages, delay_ms,
                 page_url, referer, all_entries, seen_ids,
                 pages_visited, current_url, html, entries, i, new_count, output,
                 writes, trace, extracted>>

CheckStop ==
  /\ pc = "dedup"
  /\ i > Len(entries)
  /\ IF BudgetReached(max_pages, pages_visited)
     THEN /\ stop_reason' = "budget"
          /\ pc' = "write"
          /\ UNCHANGED <<next_url, resolver_calls>>
     ELSE /\ next_url' = get_next_page_url_from_html(html, current_url)
          /\ resolver_calls' = resolver_calls + 1
          /\ IF next_url' = None
             THEN stop_reason' = "end" /\ pc' = "write"
             ELSE stop_reason' = stop_reason /\ pc' = "advance"
  /\ UNCHANGED <<pureVars, cookieVars, stderr, browser_closed, site, max_pages, delay_ms, page_url, referer, all_entries, seen_ids,
                 pages_visited, current_url, html, entries, i, new_count, output,
                 writes, trace, extracted>>

\* lines 192-193: navigate to the next page, referer is the current page
AdvanceRefererNext ==
  /\ pc = "advance"
  /\ referer' = next_url
  /\ page_url' = next_url
  /\ trace' = Append(trace, <<"goto", next_url[1], next_url[1]>>)
  /\ pc' = "delay"
  /\ UNCHANGED <<auxVars, site, max_pages, delay_ms, all_entries, seen_ids, pages_visited,
                 current_url, html, entries, i, new_count, next_url, stop_reason,
                 output, writes, extracted>>

Advance ==
  /\ pc = "advance"
  /\ referer' = Some(current_url)
  /\ page_url' = next_url
  /\ trace' = Append(trace, <<"goto", next_url[1], current_url>>)
  /\ pc' = "delay"
  /\ UNCHANGED <<auxVars, site, max_pages, delay_ms, all_entries, seen_ids, pages_visited,
                 current_url, html, entries, i, new_count, next_url, stop_reason,
                 output, writes, extracted>>

\* lines 194-195: inter-page delay, then current_url moves on
Delay ==
  /\ pc = "delay"
  /\ trace' = Append(trace, <<"wait", delay_ms>>)
  /\ current_url' = next_url[1]
  /\ pc' = "visit"
  /\ UNCHANGED <<auxVars, site, max_pages, delay_ms, page_url, referer, all_entries, seen_ids,
                 pages_visited, html, entries, i, new_count, next_url, stop_reason,
                 output, writes, extracted>>

\* lines 147, 193: page.goto raises; nothing in scrape() catches it
NavigationFailsSalvage ==
  /\ pc \in {"first", "advance"}
  /\ referer' = IF pc = "first" THEN Some(BASE_ADDR) ELSE Some(current_url)
  /\ trace' = Append(trace, <<"goto", IF pc = "first" THEN start_url ELSE next_url[1],
                               IF pc = "first" THEN BASE_ADDR ELSE current_url>>)
  /\ pc' = "write"
  /\ stop_reason' = "error"
  /\ UNCHANGED <<auxVars, site, max_pages, delay_ms, page_url, all_entries, seen_ids,
                 pages_visited, current_url, html, entries, i, new_count, next_url,
                 output, writes, extracted>>

NavigationFails ==
  /\ pc \in {"first", "advance"}
  /\ referer' = IF pc = "first" THEN Some(BASE_ADDR) ELSE Some(current_url)
  /\ trace' = Append(trace, <<"goto", IF pc = "first" THEN start_url ELSE next_url[1],
                               IF pc = "first" THEN BASE_ADDR ELSE current_url>>)
  /\ pc' = "aborted"
  /\ stop_reason' = "error"
  /\ UNCHANGED <<auxVars, site, max_pages, delay_ms, page_url, all_entries, seen_ids,
                 pages_visited, current_url, html, entries, i, new_count, next_url,
                 output, writes, extracted>>

\* lines 198-205: the single write of the result, then the browser is closed
WriteOutput ==
  /\ pc = "write"
  /\ output' = Some(all_entries)
  /\ writes' = writes + 1
  /\ browser_closed' = TRUE
  /\ pc' = "done"
  /\ UNCHANGED <<pureVars, cookieVars, resolver_calls, stderr, site, max_pages, delay_ms, page_url, referer, all_entries, seen_ids,
                 pages_visited, current_url, html, entries, i, new_count, next_url,
                 stop_reason, trace, extracted>>

\* lines 202-205: open/dump raises; the error is printed and swallowed
WriteFailsRaises ==
  /\ pc = "write"
  /\ writes' = writes + 1
  /\ stderr' = Append(stderr, "Error writing output file")
  /\ pc' = "aborted"
  /\ UNCHANGED <<pureVars, cookieVars, resolver_calls, browser_closed,
                 site, max_pages, delay_ms, page_url, referer, all_entries, seen_ids,
                 pages_visited, current_url, html, entries, i, new_count, next_url,
                 stop_reason, output, trace, extracted>>

WriteFails ==
  /\ pc = "write"
  /\ writes' = writes + 1
  /\ stderr' = Append(stderr, "Error writing output file")
  /\ browser_closed' = TRUE
  /\ pc' = "done"
  /\ UNCHANGED <<pureVars, cookieVars, resolver_calls, site, max_pages, delay_ms, page_url, referer, all_entries, seen_ids,
                 pages_visited, current_url, html, entries, i, new_count, next_url,
                 stop_reason, output, trace, extracted>>

\* lines 122-125, 136: no cookie header was given
SkipCookies ==
  /\ pc = "cookies"
  /\ ~HeaderGiven(cookie_header)
  /\ pc' = "first"
  /\ UNCHANGED <<auxVars, site, max_pages, delay_ms, page_url, referer, all_entries,
                 seen_ids, pages_visited, current_url, html, entries, i, new_count,
                 next_url, stop_reason, output, writes, trace, extracted>>

\* lines 136-139: the cookies of the header are added to the browser context
InjectCookies ==
  /\ pc = "cookies"
  /\ HeaderGiven(cookie_header)
  /\ cookies' = cookie_header_to_list(cookie_header[1])
  /\ pc' = "first"
  /\ UNCHANGED <<pureVars, cookie_header, stderr, browser_closed, resolver_calls,
                 site, max_pages, delay_ms, page_url, referer, all_entries,
                 seen_ids, pages_visited, current_url, html, entries, i, new_count,
                 next_url, stop_reason, output, writes, trace, extracted>>

\* lines 140-141: add_cookies raises; a warning is printed and the run goes on
CookieInjectionAborts ==
  /\ pc = "cookies"
  /\ HeaderGiven(cookie_header)
  /\ pc' = "aborted"
  /\ UNCHANGED <<auxVars, site, max_pages, delay_ms, page_url, referer, all_entries,
                 seen_ids, pages_visited, current_url, html, entries, i, new_count,
                 next_url, stop_reason, output, writes, trace, extracted>>

CookieInjectionFails ==
  /\ pc = "cookies"
  /\ HeaderGiven(cookie_header)
  /\ stderr' = Append(stderr, "Warning: failed to add cookies to context")
  /\ pc' = "first"
  /\ UNCHANGED <<pureVars, cookieVars, browser_closed, resolver_calls,
                 site, max_pages, delay_ms, page_url, referer, all_entries,
                 seen_ids, pages_visited, current_url, html, entries, i, new_count,
                 next_url, stop_reason, output, writes, trace, extracted>>

Next ==
  \/ FirstNavigation
  \/ Settle
  \/ VisitPage
  \/ DedupEntry
  \/ CheckStop
  \/ Advance
  \/ Delay
  \/ NavigationFails
  \/ WriteOutput
  \/ WriteFails

Spec == Init /\ [][Next]_vars

\* scrape() from its first line, with a cookie header or without, on a
\* one-page topic or the fixture.
CookieInit ==
  /\ site \in SitesOf(1) \cup {Fixture}
  /\ max_pages \in Budgets
  /\ delay_ms \in Delays
  /\ cookie_header \in CookieHeaders
  /\ pc = "cookies"
  /\ page_url = None
  /\ referer = None
  /\ all_entries = <<>>
  /\ seen_ids = {}
  /\ pages_visited = 0
  /\ current_url = start_url
  /\ html = None
  /\ entries = <<>>
  /\ i = 1
  /\ new_count = 0
  /\ next_url = None
  /\ stop_reason = ""
  /\ output = None
  /\ writes = 0
  /\ trace = <<>>
  /\ extracted = <<>>
  /\ resolver_calls = 0
  /\ cookies = <<>>
  /\ stderr = <<>>
  /\ browser_closed = FALSE
  /\ call_arg = None
  /\ call_ret = None

CookieNext ==
  \/ SkipCookies
  \/ InjectCookies
  \/ CookieInjectionFails
  \/ Next

CookieSpec == CookieInit /\ [][CookieNext]_vars

TypeOK ==
  /\ pc \in {"first", "settle", "visit", "dedup", "advance", "delay", "write",
             "done", "aborted"}
  /\ pages_visited \in 0..MaxVisits
  /\ stop_reason \in {"", "budget", "end", "error"}

\* Every fetch succeeds: the coroutine is the only task of the event loop and
\* is resumed whenever the awaited call completes.
NextOK ==
  \/ FirstNavigation
  \/ Settle
  \/ VisitPage
  \/ DedupEntry
  \/ CheckStop
  \/ Advance
  \/ Delay
  \/ WriteOutput
  \/ WriteFails

LiveSpec == Init /\ [][NextOK]_vars /\ WF_vars(NextOK)

\* ------------------------------------------------------ history helpers
RECURSIVE Flatten(_)
Flatten(ss) == IF ss = <<>> THEN <<>> ELSE Head(ss) \o Flatten(Tail(ss))

Front(s) == SubSeq(s, 1, Len(s) - 1)

\* The extracted records the dedup loop has handled so far, in order.
Processed ==
  IF extracted = <<>> THEN <<>>
  ELSE Flatten(Front(extracted)) \o SubSeq(entries, 1, i - 1)

IdsOf(s) == {s[k].entry_id : k \in 1..Len(s)}

EmptyCount(s) == Cardinality({k \in 1..Len(s) : s[k].entry_id = 0})

\* Keep every record with an empty identity and the first record of every
\* other identity, in order.
RECURSIVE FirstSeen(_, _)
FirstSeen(s, seen) ==
  IF s = <<>> THEN <<>>
  ELSE IF Head(s).entry_id = 0 THEN <<Head(s)>> \o FirstSeen(Tail(s), seen)
  ELSE IF Head(s).entry_id \in seen THEN FirstSeen(Tail(s), seen)
  ELSE <<Head(s)>> \o FirstSeen(Tail(s), seen \cup {Head(s).entry_id})

LoopExited == pc \in {"write", "done"}

IsGoto(ev) == ev[1] = "goto"

Navs == SelectSeq(trace, IsGoto)

\* Positions in trace of the goto calls, in order.
NavPos == {k \in 1..Len(trace) : IsGoto(trace[k])}

DedupStep == pc = "dedup" /\ i <= Len(entries) /\ i' = i + 1

PositiveBudget == max_pages # None /\ max_pages[1] >= 1

RECURSIVE ChainEnds(_, _, _)
ChainEnds(s, a, n) ==
  IF s[a].next = None THEN TRUE
  ELSE IF n = 0 THEN FALSE
  ELSE ChainEnds(s, s[a].next[1], n - 1)

FiniteChain == ChainEnds(site, start_url, Len(site))

\* ---------------------------------------------------------------- claims

\* C1: every extracted record whose entry_id is empty that the dedup loop has
\* handled is in the result collection (two such records are both kept), and
\* the empty identity is never recorded in the seen set.
C1_EmptyIdKept ==
  /\ EmptyCount(all_entries) = EmptyCount(Processed)
  /\ 0 \notin seen_ids

\* C2: no two records of the result collection share a non-empty entry_id; a
\* dedup step on an identity not extracted before appends the record, a dedup
\* step on an identity that was extracted before changes neither the result
\* collection nor the seen set.
NoDuplicateIds ==
  \A k, l \in 1..Len(all_entries) :
     (k # l /\ all_entries[k].entry_id # 0)
        => all_entries[k].entry_id # all_entries[l].entry_id

C2_OncePerIdentity ==
  /\ []NoDuplicateIds
  /\ [][DedupStep =>
          LET eid == entries[i].entry_id
          IN /\ (eid # 0 /\ eid \notin IdsOf(Processed))
                  => (all_entries' = Append(all_entries, entries[i])
                      /\ seen_ids' = seen_ids \cup {eid})
             /\ (eid # 0 /\ eid \in IdsOf(Processed))
                  => UNCHANGED <<all_entries, seen_ids>>]_vars

\* C2 witness: the run is over and some non-empty identity was extracted on
\* two different pages.
C2_Witness ==
  /\ pc = "done"
  /\ \E m, n \in 1..Len(extracted) :
        /\ m < n
        /\ (IdsOf(extracted[m]) \cap IdsOf(extracted[n])) \ {0} # {}

\* C3: at the end of a run the size of the result collection is the number of
\* distinct non-empty identities extracted plus the number of extracted
\* records with an empty identity.
C3_AcceptedCount ==
  LoopExited =>
     Len(all_entries) = Cardinality(IdsOf(Flatten(extracted)) \ {0})
                          + EmptyCount(Flatten(extracted))

\* C4: the final result collection is the concatenation of the visited pages'
\* records, in visit and document order, with every later occurrence of an
\* already-seen identity removed.
C4_DiscoveryOrder ==
  LoopExited => all_entries = FirstSeen(Flatten(extracted), {})

\* C5: with a page budget B >= 1 the counter never exceeds B, at most B pages
\* are fetched and extracted, every record of the result comes from the first
\* B pages, and budget 1 on the fixture stops after page 1 with 3 records.
C5_BudgetRespected ==
  PositiveBudget =>
     LET B == max_pages[1]
     IN /\ pages_visited <= B
        /\ Len(extracted) <= B
        /\ Len(Navs) <= B
        /\ \A k \in 1..Len(all_entries) :
              \E m \in 1..Len(extracted) :
                 m <= B /\ \E n \in 1..Len(extracted[m]) : extracted[m][n] = all_entries[k]
        /\ (site = Fixture /\ B = 1 /\ LoopExited)
              => /\ stop_reason = "budget"
                 /\ pages_visited = 1
                 /\ [k \in 1..Len(all_entries) |-> all_entries[k].entry_id] = <<1, 2, 3>>

\* C5 witness: the fixture with budget 1 has stopped on the budget.
C5_Witness ==
  /\ site = Fixture
  /\ max_pages = Some(1)
  /\ pc = "done"
  /\ stop_reason = "budget"
  /\ Len(all_entries) = 3
  /\ site[1].next # None

\* C6: a page budget of zero behaves like an unset budget: the budget stop
\* never fires, and the loop is left only when the page just processed has no
\* next address.
C6_ZeroBudgetUnbounded ==
  (max_pages = Some(0) \/ max_pages = None) =>
     /\ stop_reason # "budget"
     /\ LoopExited =>
           /\ stop_reason = "end"
           /\ site[page_url[1]].next = None
           /\ pages_visited = Len(extracted)

\* C6 witness: a run with budget zero went past its first page and ended at a
\* page without next address.
C6_Witness ==
  /\ max_pages = Some(0)
  /\ pc = "done"
  /\ pages_visited >= 2
  /\ stop_reason = "end"

\* C7: if every fetch succeeds, a run with a positive page budget or a finite
\* chain of next links eventually leaves the loop and performs the write of
\* the output; the loop is left only because the budget was reached or the
\* page has no next address.
C7_Terminates ==
  /\ (PositiveBudget \/ FiniteChain) => <>(pc = "done" /\ writes = 1)
  /\ [](LoopExited =>
          \/ stop_reason = "budget" /\ max_pages # None /\ max_pages[1] # 0
                /\ pages_visited >= max_pages[1]
          \/ stop_reason = "end" /\ site[page_url[1]].next = None)

\* C7 witness: a run over a cyclic chain of next links was stopped by its
\* budget and is done.
C7_Witness ==
  /\ ~FiniteChain
  /\ PositiveBudget
  /\ pc = "done"
  /\ stop_reason = "budget"
  /\ pages_visited >= 2

\* C8: the output file is written at most once, only after the loop was left
\* through the budget stop or the end of pagination, and never when a
\* navigation raised, however many records were accumulated.
C8_WriteOnlyAtEnd ==
  /\ writes <= 1
  /\ output # None => writes = 1
  /\ writes = 1 => (pc = "done" /\ stop_reason \in {"budget", "end"})
  /\ (pc = "aborted" \/ stop_reason = "error") => (writes = 0 /\ output = None)
  /\ pc = "write" => stop_reason \in {"budget", "end"}

\* C8 witness: a navigation failed after records had been accumulated.
C8_Witness ==
  /\ pc = "aborted"
  /\ pages_visited >= 1
  /\ Len(all_entries) >= 1

\* C9: the first navigation carries the base origin as Referer, and every
\* later navigation carries the address of the navigation before it.
C9_RefererIsPrevious ==
  /\ Len(Navs) >= 1 => Navs[1][3] = BASE_ADDR
  /\ \A k \in 2..Len(Navs) : Navs[k][3] = Navs[k - 1][2]
  /\ (pc \in {"settle", "delay"}) => referer = Some(Navs[Len(Navs)][3])

\* C9 witness: three navigations were made and the last two went to different
\* addresses.
C9_Witness ==
  /\ Len(Navs) >= 3
  /\ Navs[2][2] # Navs[3][2]

\* C10: every navigation after the first is preceded, since the navigation
\* before it, by a wait of the configured delay_ms.
C10_DelayBeforeNavigation ==
  \A k, l \in NavPos :
     (k < l /\ \A m \in NavPos : ~(k < m /\ m < l))
        => \E w \in (k + 1)..(l - 1) : trace[w] = <<"wait", delay_ms>>

\* Helpers for the claims on normalize_topic_url
Middle(r) == SubSeq(r, 3, Len(r) - 1)

Framed(r) == Len(r) >= 3 /\ r[1] = BASE /\ r[2] = "/" /\ r[Len(r)] = "?p=1"

NoOuter(m, set) == m = <<>> \/ (m[1] \notin set /\ m[Len(m)] \notin set)

Within(m, t) == \E j \in 1..(Len(t) + 1) : SubSeq(t, j, j + Len(m) - 1) = m

AllIn(s, set) == \A k \in 1..Len(s) : s[k] \in set

HasAny(s, set) == \E k \in 1..Len(s) : s[k] \in set

\* t is (spaces)(slashes) m (slashes)(spaces), the runs of spaces being maximal
TrimmedFrom(m, t) ==
  \E a, b, c, d \in 0..Len(t) :
     /\ a <= b /\ b + Len(m) = c /\ c <= d
     /\ AllIn(SubSeq(t, 1, a), WHITESPACE)
     /\ AllIn(SubSeq(t, a + 1, b), {"/"})
     /\ SubSeq(t, b + 1, c) = m
     /\ AllIn(SubSeq(t, c + 1, d), {"/"})
     /\ AllIn(SubSeq(t, d + 1, Len(t)), WHITESPACE)
     /\ (a < Len(t) => t[a + 1] \notin WHITESPACE)
     /\ (d > a => t[d] \notin WHITESPACE)

AsFullUrl(slug) == HostPrefix \o <<"/">> \o slug \o <<"?", "a">>

IsString(v) == v # None

\* What the claim requires of a link field, given the element's alternatives.
LinkAsClaimed(url, x, y) ==
  LET el == IF x # None THEN x ELSE y
  IN /\ IsString(url)
     /\ (el = None \/ el[1].href = None) => url = Some(<<>>)
     /\ (el # None /\ el[1].href # None)
          => IF el[1].href[1] # <<>> /\ el[1].href[1][1] = "/"
             THEN url = Some(<<BASE>> \o el[1].href[1])
             ELSE url = el[1].href

\* C12: every record has string fields only; a missing sub-element or a
\* missing link address gives the empty string, a link beginning with "/" is
\* prefixed with BASE, any other present link is passed through unchanged.
C12_FieldsAreStrings ==
  call_ret # None =>
     LET lis == select_nodes(call_arg[1])
         out == call_ret[1]
     IN /\ Len(out) = Len(lis)
        /\ \A k \in 1..Len(out) :
              /\ IsString(out[k].author) /\ IsString(out[k].date)
              /\ IsString(out[k].content)
              /\ (lis[k].entry_author = None /\ lis[k].data_author = None)
                    => out[k].author = Some(<<>>)
              /\ (lis[k].entry_date = None /\ lis[k].permalink = None)
                    => out[k].date = Some(<<>>)
              /\ (lis[k].content = None /\ lis[k].entry_content = None)
                    => out[k].content = Some(<<>>)
              /\ LinkAsClaimed(out[k].author_url, lis[k].entry_author, lis[k].data_author)
              /\ LinkAsClaimed(out[k].permalink, lis[k].entry_date, lis[k].permalink)

\* Helpers for the claim on get_next_page_url_from_html
HasAddress(a) == a # None /\ a[1].href # None /\ a[1].href[1].kind # "empty"

\* r is the href hv resolved against the address cur
ResolvedAgainst(r, cur, hv) ==
  IF hv.kind = "abs" THEN r = hv.url
  ELSE /\ r.origin = cur.origin
       /\ r.query = hv.query
       /\ hv.kind = "path" => r.path = hv.path
       /\ hv.kind = "query" => r.path = cur.path
       /\ hv.kind = "rel" =>
            /\ Len(r.path) = Len(cur.path)
            /\ \A k \in 1..(Len(cur.path) - 1) : r.path[k] = cur.path[k]
            /\ r.path[Len(r.path)] = hv.path[1]

\* C13 (as stated): None when neither link matches; when one matches, the
\* address of the first match (rel=next before pager), resolved against the
\* current address, is returned.
C13_FirstMatchResolved ==
  call_ret # None =>
     LET h == call_arg[1].html
         cur == call_arg[1].current_url
         r == call_ret[1]
         a == IF h.rel_next # None THEN h.rel_next ELSE h.pager_next
     IN /\ (h.rel_next = None /\ h.pager_next = None) => r = None
        /\ a # None => (r # None /\ HasAddress(a) /\ ResolvedAgainst(r[1], cur, a[1].href[1]))

\* C13 (amended): None when neither link matches or when the first match
\* (rel=next before pager) has no href or an empty one; otherwise the address
\* of the first match resolved against the current address.
C13_NextPage ==
  call_ret # None =>
     LET h == call_arg[1].html
         cur == call_arg[1].current_url
         r == call_ret[1]
         a == IF h.rel_next # None THEN h.rel_next ELSE h.pager_next
     IN /\ (h.rel_next = None /\ h.pager_next = None) => r = None
        /\ (a # None /\ ~HasAddress(a)) => r = None
        /\ (a # None /\ HasAddress(a))
              => (r # None /\ ResolvedAgainst(r[1], cur, a[1].href[1]))

\* C13 witness: both links are present with different relative addresses and
\* the rel=next one was returned, resolved against the current directory.
C13_Witness ==
  /\ call_ret # None
  /\ call_arg[1].current_url = [origin |-> "o", path |-> <<"d", "t">>, query |-> "p=2"]
  /\ HasAddress(call_arg[1].html.rel_next)
  /\ HasAddress(call_arg[1].html.pager_next)
  /\ call_arg[1].html.rel_next[1].href[1].kind = "rel"
  /\ call_ret[1] = Some([origin |-> "o", path |-> <<"d", "u">>, query |-> "p=3"])

\* Helpers for the claims on diagnostics
Printed(msg) == \E k \in 1..Len(stderr) : stderr[k] = msg

CookieWarning == "Warning: failed to add cookies to context"

WriteError == "Error writing output file"

IdSeq(s) == [k \in 1..Len(s) |-> s[k].entry_id]

\* C14: a failure while injecting cookies prints a warning and leaves the run
\* where a run without cookie header is: at the first navigation, with no
\* cookie in the context and the crawl state untouched; the crawl then runs
\* as without header (the fixture ends with its six records).
C14_CookieFailureRecovered ==
  /\ [][pc = "cookies" => pc' = "first"]_vars
  /\ [][(pc = "cookies" /\ stderr' # stderr)
          => /\ stderr' = <<CookieWarning>>
             /\ cookies' = <<>>
             /\ UNCHANGED <<site, max_pages, delay_ms, page_url, referer, all_entries,
                            seen_ids, pages_visited, current_url, html, entries, i,
                            new_count, next_url, stop_reason, output, writes, trace,
                            extracted, resolver_calls, browser_closed>>]_vars
  /\ [](Printed(CookieWarning) =>
          /\ cookies = <<>>
          /\ pc = "aborted" => stop_reason = "error"
          /\ (site = Fixture /\ max_pages = None /\ LoopExited)
                => (IdSeq(all_entries) = <<1, 2, 3, 4, 5, 6>> /\ stop_reason = "end"))

\* C14 witness: the injection failed and the run nevertheless finished the
\* fixture and wrote its output.
C14_Witness ==
  /\ Printed(CookieWarning)
  /\ site = Fixture
  /\ pc = "done"
  /\ output # None
  /\ Len(all_entries) = 6

\* C15: a failing write of the output is reported and swallowed: the step
\* ends the run normally with the browser closed, the result collection is
\* unchanged, and the write is never tried again.
C15_WriteFailureSwallowed ==
  /\ [][(pc = "write" /\ stderr' # stderr)
          => /\ stderr' = Append(stderr, WriteError)
             /\ pc' = "done"
             /\ browser_closed'
             /\ writes' = 1
             /\ UNCHANGED <<all_entries, seen_ids, output>>]_vars
  /\ [](Printed(WriteError) =>
          (pc = "done" /\ browser_closed /\ writes = 1 /\ output = None
             /\ stop_reason \in {"budget", "end"}))
  /\ [][Printed(WriteError) => UNCHANGED <<all_entries, writes, pc>>]_vars

\* C15 witness: the write failed after records had been accumulated.
C15_Witness ==
  /\ Printed(WriteError)
  /\ pc = "done"
  /\ Len(all_entries) >= 2

\* The counter has reached a configured (non-zero) budget.
ConfiguredBudgetReached ==
  max_pages # None /\ max_pages[1] # 0 /\ pages_visited >= max_pages[1]

\* C16: a completed run ended by exactly one of two causes.  If the counter
\* has reached a configured budget the cause is the budget, also on a page
\* without next link, and the resolver was not consulted for that page;
\* otherwise the cause is the end of pagination, the resolver having found no
\* next link; while the loop goes on neither holds.
C16_StopCause ==
  /\ LoopExited =>
        /\ stop_reason \in {"budget", "end"}
        /\ ConfiguredBudgetReached
              => (stop_reason = "budget" /\ resolver_calls = pages_visited - 1)
        /\ ~ConfiguredBudgetReached
              => /\ stop_reason = "end"
                 /\ resolver_calls = pages_visited
                 /\ site[page_url[1]].next = None
  /\ pc \in {"advance", "delay"} =>
        /\ stop_reason = ""
        /\ ~ConfiguredBudgetReached
        /\ resolver_calls = pages_visited
        /\ site[current_url].next # None

\* C16 witness: the budget was reached on a page that has no next link.
C16_Witness ==
  /\ pc = "done"
  /\ stop_reason = "budget"
  /\ pages_visited >= 2
  /\ site[page_url[1]].next = None

\* C17: fetching and processing alternate.  A navigation after the first is
\* issued only when every earlier navigation's page has been extracted and
\* its records have all gone through the dedup loop, and only while no stop
\* condition holds; once a stop cause is set no navigation follows; so at
\* DONE the number of navigations equals the pages-visited counter.
C17_FetchProcessAlternate ==
  /\ [][(Len(Navs') > Len(Navs) /\ Navs # <<>>)
          => /\ pc = "advance"
             /\ Len(extracted) = Len(Navs)
             /\ pages_visited = Len(Navs)
             /\ i > Len(entries)
             /\ Len(Processed) = Len(Flatten(extracted))
             /\ stop_reason = ""
             /\ ~ConfiguredBudgetReached
             /\ next_url # None]_vars
  /\ [](Len(Navs) - Len(extracted) \in {0, 1})
  /\ [][stop_reason # "" => Navs' = Navs]_vars
  /\ [](pc = "done" => (Len(Navs) = pages_visited /\ Len(extracted) = pages_visited))

\* C17 witness: a run of two navigations is DONE, both pages held records.
C17_Witness ==
  /\ pc = "done"
  /\ Len(Navs) = 2
  /\ pages_visited = 2
  /\ \A k \in 1..Len(extracted) : extracted[k] # <<>>

\* C18: at every moment the seen set is exactly the set of the entry_id
\* values of the records of the result collection, and every step that
\* changes the result collection appends one record, the one under the
\* dedup loop, at its end.
C18_SeenMatchesResult ==
  /\ [](seen_ids = IdsOf(all_entries))
  /\ [][all_entries' # all_entries
          => /\ pc = "dedup" /\ i <= Len(entries)
             /\ all_entries' = Append(all_entries, entries[i])
             /\ seen_ids' = seen_ids \cup {entries[i].entry_id}]_vars

\* C18 witness: two records were accepted and a later one was passed over.
C18_Witness ==
  /\ pc = "done"
  /\ Len(all_entries) = 2
  /\ Cardinality(seen_ids) = 2
  /\ Len(Processed) > Len(all_entries)

\* No page budget is in force: max_pages is unset or zero.
NoBudget == max_pages = None \/ max_pages = Some(0)

\* Every page of the topic has been visited and deduplicated at least once.
FirstPassOver ==
  \/ pages_visited > Len(site)
  \/ pages_visited = Len(site) /\ pc # "settle" /\ i > Len(entries)

\* C19: with no page budget and a pagination chain that leads back to a
\* visited address, the run is never at the write step nor DONE, nothing is
\* ever written, every page visit is followed by another navigation, and
\* once every page has been handled once the result collection no longer
\* changes.
C19_CycleNeverEnds ==
  /\ []((NoBudget /\ ~FiniteChain)
          => /\ ~LoopExited
             /\ stop_reason \in {"", "error"}
             /\ writes = 0
             /\ output = None)
  /\ [][(NoBudget /\ ~FiniteChain /\ pc = "dedup" /\ i > Len(entries))
          => (pc' = "advance" /\ next_url' # None)]_vars
  /\ [][(NoBudget /\ ~FiniteChain /\ FirstPassOver)
          => (all_entries' = all_entries /\ seen_ids' = seen_ids)]_vars

\* C19 witness: a two-page cycle without budget has been followed past its
\* first pass; the loop is about to take one more page and nothing was kept
\* from the revisited page.
C19_Witness ==
  /\ NoBudget /\ ~FiniteChain
  /\ Len(site) = 2
  /\ pages_visited > Len(site)
  /\ pc = "advance"
  /\ extracted[pages_visited] # <<>>
  /\ new_count = 0
  /\ Len(all_entries) = 2

\* The records the dedup loop keeps of the sequence s, seen being the
\* identities recorded before.
RECURSIVE Kept(_, _)
Kept(s, seen) ==
  IF s = <<>> THEN <<>>
  ELSE IF Accepts(Head(s).entry_id, seen)
       THEN <<Head(s)>> \o Kept(Tail(s), seen \cup {Head(s).entry_id})
       ELSE Kept(Tail(s), seen)

\* What a run that stops after its first page collects.
FirstPageResult == Kept(parse_entries_from_html(site[start_url]), {})

NegativeBudget == max_pages # None /\ max_pages[1] < 0

\* C20: with any negative max_pages, just as with max_pages = 1, the run
\* is not unbounded: it never visits a second page nor navigates twice nor
\* consults the resolver, it leaves the loop after exactly one page with the
\* budget as cause, and what it collects and writes is the first page's
\* records, whatever the budget's value.
C20_NegativeBudgetOnePage ==
  (NegativeBudget \/ max_pages = Some(1))
    => /\ pages_visited <= 1
       /\ Len(Navs) <= 1
       /\ resolver_calls = 0
       /\ pc \notin {"advance", "delay"}
       /\ LoopExited
            => /\ stop_reason = "budget"
               /\ pages_visited = 1
               /\ all_entries = FirstPageResult
               /\ output \in {None, Some(FirstPageResult)}

\* C20 witness: a run with a budget below -1 on a topic whose first page has
\* a next link is DONE and has written the first page's records.
C20_Witness ==
  /\ max_pages # None /\ max_pages[1] < -1
  /\ pc = "done"
  /\ site[start_url].next # None
  /\ stop_reason = "budget"
  /\ output = Some(FirstPageResult)
  /\ FirstPageResult # <<>>
====
